---- MODULE Spec2Model ----
(***************************************************************************)
(* Model of the federation composition validators, of the supergraph       *)
(* reader (buildComposedSchema) and of RemoteGraphQLDataSource.process.    *)
(*                                                                         *)
(* The validators and the reader are pure functions of their input.  A     *)
(* specification draws the input from a bounded set in its initial state   *)
(* and has one action that applies the function and stores what it         *)
(* returned.  The data source is a state machine with one action per step  *)
(* of process between two suspension points.                               *)
(***************************************************************************)
EXTENDS Integers, Sequences, FiniteSets, TLC

VARIABLES
    kIn,      \* argument of keyFieldsSelectInvalidType: {schema, serviceList}
    kOut,     \* what keyFieldsSelectInvalidType returned
    doc,      \* argument of buildComposedSchema: the supergraph document
    result,   \* what buildComposedSchema returned or threw
    pIn,      \* argument of providesFieldsMissingExternal
    pOut,     \* what providesFieldsMissingExternal returned
    remote    \* a RemoteGraphQLDataSource and the state of one call of process

vars == <<kIn, kOut, doc, result, pIn, pOut, remote>>

\* An output that has not been computed yet.
NotRun == [done |-> FALSE]
\* An input a specification does not use.
Unused == <<>>

\* The sequences over S of length lo..hi.
SeqsOf(S, lo, hi) == UNION {[1..n -> S] : n \in lo..hi}

\* The concatenation of the sequences f[1], ..., f[Len(f)].
RECURSIVE Flatten(_)
Flatten(f) == IF f = <<>> THEN <<>> ELSE Head(f) \o Flatten(Tail(f))

\* The elements of a sequence.
Range(s) == {s[i] : i \in DOMAIN s}

(***************************************************************************)
(* GraphQL type references: a named type under a stack of List / NonNull   *)
(* wrappers, outermost first.                                              *)
(***************************************************************************)
\* Deepest wrapper stack of a field type.
MaxWrap == 2

NamedKinds == {"Scalar", "Enum", "Object", "Interface", "Union"}

\* NonNull never wraps NonNull.
WrapStacks ==
    {w \in SeqsOf({"NonNull", "List"}, 0, MaxWrap) :
        \A i \in 1..(Len(w) - 1) : ~(w[i] = "NonNull" /\ w[i + 1] = "NonNull")}

TypeRefs == [wrap : WrapStacks, kind : NamedKinds]

isNonNullType(t) == t.wrap # <<>> /\ Head(t.wrap) = "NonNull"
isListType(t) == t.wrap # <<>> /\ Head(t.wrap) = "List"
isInterfaceType(t) == t.wrap = <<>> /\ t.kind = "Interface"
isUnionType(t) == t.wrap = <<>> /\ t.kind = "Union"
getNullableType(t) == IF isNonNullType(t) THEN [t EXCEPT !.wrap = Tail(t.wrap)] ELSE t

(***************************************************************************)
(* keyFieldsSelectInvalidType                                              *)
(***************************************************************************)
KEY_FIELDS_SELECT_INVALID_TYPE == "KEY_FIELDS_SELECT_INVALID_TYPE"

\* errorWithCode(code, logServiceAndType(service, type) + message): the
\* message is kept as the field it names and what it says about it.
KeyError(serviceName, typeName, name, what) ==
    [code |-> KEY_FIELDS_SELECT_INVALID_TYPE, service |-> serviceName,
     type |-> typeName, field |-> name, what |-> what]

\* The interface test of the validator.
SelectsInterface(t) ==
    isInterfaceType(t) \/ (isNonNullType(t) /\ isInterfaceType(getNullableType(t)))

\* The union test without its non-null case.
SelectsUnionBareOnly(t) == isUnionType(t)

\* The union test of the validator.
SelectsUnion(t) ==
    isUnionType(t) \/ (isNonNullType(t) /\ isUnionType(getNullableType(t)))

\* The body of the innermost loop without the report of a missing field.
KeyFieldErrorsSkipMissing(namedType, serviceName, field) ==
    LET name == field.name
        allFieldsInType == namedType.fields
    IN  IF name \notin DOMAIN allFieldsInType
        THEN <<>>
        ELSE LET matchingField == allFieldsInType[name] IN
             (IF SelectsInterface(matchingField)
              THEN <<KeyError(serviceName, namedType.name, name, "interface")>>
              ELSE <<>>)
             \o
             (IF SelectsUnion(matchingField)
              THEN <<KeyError(serviceName, namedType.name, name, "union")>>
              ELSE <<>>)

\* The body of the innermost loop: the errors pushed for one selected field.
KeyFieldErrors(namedType, serviceName, field) ==
    LET name == field.name
        allFieldsInType == namedType.fields
    IN  IF name \notin DOMAIN allFieldsInType
        THEN <<KeyError(serviceName, namedType.name, name, "could not be found")>>
        ELSE LET matchingField == allFieldsInType[name] IN
             (IF SelectsInterface(matchingField)
              THEN <<KeyError(serviceName, namedType.name, name, "interface")>>
              ELSE <<>>)
             \o
             (IF SelectsUnion(matchingField)
              THEN <<KeyError(serviceName, namedType.name, name, "union")>>
              ELSE <<>>)

\* The loop over the fields of one key.
KeySelectionSetErrors(namedType, serviceName, selectionSet) ==
    Flatten([i \in DOMAIN selectionSet |->
                KeyFieldErrors(namedType, serviceName, selectionSet[i])])

\* The loop over the keys one service declares on the type.
KeyServiceErrors(namedType, entry) ==
    Flatten([i \in DOMAIN entry.selectionSets |->
                KeySelectionSetErrors(namedType, entry.serviceName,
                                      entry.selectionSets[i])])

\* The body of the loop over the type map: nothing for a type that is not an
\* object type or that has no keys metadata.
KeyTypeErrors(namedType) ==
    IF namedType.kind # "Object" THEN <<>>
    ELSE IF ~namedType.federation.hasKeys THEN <<>>
    ELSE Flatten([i \in DOMAIN namedType.federation.keys |->
                     KeyServiceErrors(namedType, namedType.federation.keys[i])])

\* The validator that returns at its first error.
keyFieldsFirstErrorOnly(in) ==
    LET all == Flatten([i \in DOMAIN in.schema |-> KeyTypeErrors(in.schema[i])])
    IN  IF all = <<>> THEN <<>> ELSE <<Head(all)>>

\* The validator: the errors of every type of the type map, in order.
keyFieldsSelectInvalidType(in) ==
    Flatten([i \in DOMAIN in.schema |-> KeyTypeErrors(in.schema[i])])

(***************************************************************************)
(* Inputs of keyFieldsSelectInvalidType: a composed schema of two types.   *)
(* The first is the object type Product, whose fields and keys vary; the   *)
(* second is one of three fixed types.                                     *)
(***************************************************************************)
\* Most keys one service declares on a type.
MaxKeys == 1
\* Most top-level fields of one key.
MaxSel == 2

KeyServices == <<"S1", "S2">>

\* The top-level FieldNodes a key may select.
KeyFieldNodes == [name : {"upc", "category"}]

KeySelectionSets == SeqsOf(KeyFieldNodes, 1, MaxSel)

\* The federation metadata of a type without keys.
NoKeys == [hasKeys |-> FALSE, keys |-> <<>>]

\* The federation metadata of a type: keys is undefined, or has one entry per
\* service.
KeysMetadata ==
    {NoKeys} \cup
    {[hasKeys |-> TRUE,
      keys |-> [i \in 1..Len(KeyServices) |->
                  [serviceName |-> KeyServices[i], selectionSets |-> f[i]]]] :
        f \in [1..Len(KeyServices) -> SeqsOf(KeySelectionSets, 0, MaxKeys)]}

\* The types Product.upc may have when it exists.
UpcTypes == {[wrap |-> <<>>, kind |-> "Scalar"],
             [wrap |-> <<"NonNull">>, kind |-> "Interface"]}

\* The fields of Product: each of upc and category exists or not.
ProductFields ==
    UNION {[S -> TypeRefs] : S \in {{}, {"category"}}}
    \cup
    UNION {{[n \in {"upc"} \cup DOMAIN g |-> IF n = "upc" THEN u ELSE g[n]] :
               u \in UpcTypes, g \in [S -> TypeRefs]} : S \in {{}, {"category"}}}

ProductTypes ==
    [name : {"Product"}, kind : {"Object"}, fields : ProductFields,
     federation : KeysMetadata]

OneKey(serviceName, name) ==
    [hasKeys |-> TRUE,
     keys |-> <<[serviceName |-> serviceName,
                 selectionSets |-> <<(<<[name |-> name]>>)>>]>>]

\* An interface type that carries keys metadata, an object type without
\* keys, and an object type whose key selects a union-typed field.
OtherTypes ==
    {[name |-> "Node", kind |-> "Interface",
      fields |-> [n \in {"category"} |-> [wrap |-> <<>>, kind |-> "Interface"]],
      federation |-> OneKey("S1", "category")],
     [name |-> "Review", kind |-> "Object",
      fields |-> [n \in {"body"} |-> [wrap |-> <<>>, kind |-> "Scalar"]],
      federation |-> NoKeys],
     [name |-> "Review", kind |-> "Object",
      fields |-> [n \in {"category"} |-> [wrap |-> <<>>, kind |-> "Union"]],
      federation |-> OneKey("S2", "category")]}

KeyInputs == {[schema |-> <<t, o>>] : t \in ProductTypes, o \in OtherTypes}

InitKey ==
    /\ kIn \in KeyInputs
    /\ kOut = NotRun
    /\ doc = Unused /\ result = NotRun
    /\ pIn = Unused /\ pOut = NotRun
    /\ remote = Unused

\* A call of the validator on the composed schema.
ValidateKeys ==
    /\ ~kOut.done
    /\ kOut' = [done |-> TRUE, errors |-> keyFieldsSelectInvalidType(kIn)]
    /\ UNCHANGED <<kIn, doc, result, pIn, pOut, remote>>

NextKey == ValidateKeys

SpecKey == InitKey /\ [][NextKey]_vars

(***************************************************************************)
(* Claims about keyFieldsSelectInvalidType                                 *)
(***************************************************************************)
\* Every (type, service, key, field) occurrence of the composed schema: an
\* object type with keys metadata, a service that declares keys on it, and a
\* top-level field of one of these keys.
KeyOccurrences ==
    UNION {UNION {UNION {{[type |-> T, service |-> e.serviceName, name |-> ss[l].name] :
                             l \in DOMAIN ss} :
                         ss \in Range(e.selectionSets)} :
                  e \in Range(T.federation.keys)} :
           T \in {t \in Range(kIn.schema) : t.kind = "Object" /\ t.federation.hasKeys}}

\* An interface or a union, bare or wrapped in non-null.
AbstractOrNonNullAbstract ==
    [wrap : {<<>>, <<"NonNull">>}, kind : {"Interface", "Union"}]

\* The errors returned for the field of an occurrence.
ErrorsFor(o) ==
    {i \in DOMAIN kOut.errors :
        /\ kOut.errors[i].service = o.service
        /\ kOut.errors[i].type = o.type.name
        /\ kOut.errors[i].field = o.name}

\* C1: a key of service S on object type T that selects an existing field of
\* interface or union type, bare or wrapped in non-null, yields an error with
\* code KEY_FIELDS_SELECT_INVALID_TYPE attributed to S and T.
C1_AbstractKeyFieldRejected ==
    kOut.done =>
        \A o \in KeyOccurrences :
            (o.name \in DOMAIN o.type.fields
                /\ o.type.fields[o.name] \in AbstractOrNonNullAbstract)
            => \E i \in ErrorsFor(o) :
                  kOut.errors[i].code = "KEY_FIELDS_SELECT_INVALID_TYPE"

\* The validator has run on a Product whose key of S1 selects the non-null
\* union field category, and reported it.
C1_Witness ==
    /\ kOut.done
    /\ \E o \in KeyOccurrences :
          /\ o.type.name = "Product" /\ o.service = "S1" /\ o.name = "category"
          /\ "category" \in DOMAIN o.type.fields
          /\ o.type.fields["category"] = [wrap |-> <<"NonNull">>, kind |-> "Union"]
          /\ \E i \in ErrorsFor(o) : kOut.errors[i].what = "union"

\* C2: a key that selects an existing field of list type (bare or non-null
\* list, of any element type) yields at least one error with code
\* KEY_FIELDS_SELECT_INVALID_TYPE for that field.
C2_ListKeyFieldRejected ==
    kOut.done =>
        \A o \in KeyOccurrences :
            (o.name \in DOMAIN o.type.fields
                /\ isListType(getNullableType(o.type.fields[o.name])))
            => \E i \in ErrorsFor(o) :
                  kOut.errors[i].code = "KEY_FIELDS_SELECT_INVALID_TYPE"

(***************************************************************************)
(* buildComposedSchema                                                     *)
(*                                                                         *)
(* Names of types and directives are sequences of characters, so that the  *)
(* prefix tests of isAssociatedWithFeature are computed on the characters. *)
(* Enum values, subgraph names and feature URLs are only compared for      *)
(* equality and are strings.                                               *)
(***************************************************************************)
\* JavaScript's undefined, where a string is expected.
Undefined == "undefined"

coreName == <<"c", "o", "r", "e">>
joinName == <<"j", "o", "i", "n">>

\* `${featureName}__${name}`
Qualified(featureName, name) == featureName \o <<"_", "_">> \o name

\* String.prototype.startsWith
startsWith(name, prefix) ==
    Len(name) >= Len(prefix) /\ SubSeq(name, 1, Len(prefix)) = prefix

CoreV01 == "https://specs.apollo.dev/core/v0.1"
JoinV01 == "https://specs.apollo.dev/join/v0.1"

\* The feature test of the loop over the @core applications.
SupportedFeature(feature) == feature = CoreV01 \/ feature = JoinV01

ownerDirectiveName == Qualified(joinName, <<"o", "w", "n", "e", "r">>)
typeDirectiveName == Qualified(joinName, <<"t", "y", "p", "e">>)
fieldDirectiveName == Qualified(joinName, <<"f", "i", "e", "l", "d">>)
graphDirectiveName == Qualified(joinName, <<"g", "r", "a", "p", "h">>)
graphEnumName == Qualified(joinName, <<"G", "r", "a", "p", "h">>)

\* The introspection types of the schemas below.
IntrospectionNames == {<<"_", "_", "S", "c", "h", "e", "m", "a">>}

isIntrospectionType(type) == type.name \in IntrospectionNames
isObjectType(type) == type.kind = "Object"
isEnumType(type) == type.kind = "Enum"

\* A thrown error.  GraphQLError(message, nodes) is built without extensions,
\* so it carries no code; neither does an assertion failure.
Thrown(kind, message) ==
    [done |-> TRUE, ok |-> FALSE,
     error |-> [kind |-> kind, message |-> message, extensions |-> <<>>]]

\* parseFieldSet: the source of a field set, kept as its field names, becomes
\* the list of its FieldNodes.
parseFieldSet(source) ==
    [i \in DOMAIN source |-> [kind |-> "Field", name |-> source[i]]]

\* MultiMap.add: append the value to the list filed under the key.
MultiMapAdd(map, key, value) ==
    IF key \in DOMAIN map
    THEN [map EXCEPT ![key] = Append(@, value)]
    ELSE [k \in DOMAIN map \cup {key} |-> IF k = key THEN <<value>> ELSE map[k]]

\* Map.set
MapSet(map, key, value) ==
    [k \in DOMAIN map \cup {key} |-> IF k = key THEN value ELSE map[k]]

\* The truthiness test of requires and provides without the emptiness case.
TruthyWhenPresent(arg) == arg.present

\* An argument that is a non-empty string.
Truthy(arg) == arg.present /\ arg.value # <<>>

\* The graph map after the loop over the first n values of join__Graph.
RECURSIVE GraphMapUpTo(_, _)
GraphMapUpTo(values, n) ==
    IF n = 0 THEN <<>>
    ELSE MapSet(GraphMapUpTo(values, n - 1), values[n].name,
                [name |-> values[n].graph.name, url |-> values[n].graph.url])

\* The keys multimap filed under the enum value instead of the subgraph name.
RECURSIVE KeysByEnumValue(_, _, _)
KeysByEnumValue(typeDirectivesArgs, graphMap, n) ==
    IF n = 0 THEN <<>>
    ELSE MultiMapAdd(KeysByEnumValue(typeDirectivesArgs, graphMap, n - 1),
                     typeDirectivesArgs[n].graph,
                     parseFieldSet(typeDirectivesArgs[n].key))

\* The keys multimap after the first n @join__type applications.
RECURSIVE KeysUpTo(_, _, _)
KeysUpTo(typeDirectivesArgs, graphMap, n) ==
    IF n = 0 THEN <<>>
    ELSE MultiMapAdd(KeysUpTo(typeDirectivesArgs, graphMap, n - 1),
                     graphMap[typeDirectivesArgs[n].graph].name,
                     parseFieldSet(typeDirectivesArgs[n].key))

\* The type metadata of a type that passed the assertions.
TypeMetadata(type, graphMap) ==
    IF type.owner.applied
    THEN [isValueType |-> FALSE,
          graphName |-> graphMap[type.owner.graph].name,
          keys |-> KeysUpTo(type.typeApps, graphMap, Len(type.typeApps))]
    ELSE [isValueType |-> TRUE]

\* The field metadata of a field that carries @join__field.
FieldMetadata(args, graphMap) ==
    [graphName |-> IF args.graph \in DOMAIN graphMap
                   THEN graphMap[args.graph].name ELSE Undefined]
    @@ (IF Truthy(args.requires)
        THEN [requires |-> parseFieldSet(args.requires.value)] ELSE <<>>)
    @@ (IF Truthy(args.provides)
        THEN [provides |-> parseFieldSet(args.provides.value)] ELSE <<>>)

\* The assertions on a type without the one on @join__type without
\* @join__owner.
TypeAssertionOwnerOptional(type, graphMap) ==
    IF type.owner.applied /\ type.owner.graph \notin DOMAIN graphMap
    THEN <<"@join__owner directive requires a graph argument", type.name>>
    ELSE IF \E i \in DOMAIN type.typeApps : type.typeApps[i].graph \notin DOMAIN graphMap
    THEN <<"must provide a graph argument to the @join__type directive", type.name>>
    ELSE <<>>

\* The message of the first assertion that fails on a type, or <<>>.
TypeAssertion(type, graphMap) ==
    IF type.owner.applied /\ type.owner.graph \notin DOMAIN graphMap
    THEN <<"@join__owner directive requires a graph argument", type.name>>
    ELSE IF ~type.owner.applied /\ Len(type.typeApps) # 0
    THEN <<"cannot have a @join__type directive without an @join__owner directive",
           type.name>>
    ELSE IF \E i \in DOMAIN type.typeApps : type.typeApps[i].graph \notin DOMAIN graphMap
    THEN <<"must provide a graph argument to the @join__type directive", type.name>>
    ELSE <<>>

\* The types the loop would not skip if it did not test for object types.
JoinedTypesOfAnyKind(types) ==
    SelectSeq(types, LAMBDA type : ~isIntrospectionType(type))

\* The types the loop over the type map does not skip.
JoinedTypes(types) ==
    SelectSeq(types, LAMBDA type : ~isIntrospectionType(type) /\ isObjectType(type))

\* The association test that lets any element use the unprefixed name.
isAssociatedByNameOnly(element, featureName) ==
    \/ element.name = featureName
    \/ startsWith(element.name, Qualified(featureName, <<>>))

\* Only a directive can use the unprefixed feature name.
isAssociatedWithFeature(element, featureName) ==
    \/ element.isDirective /\ element.name = featureName
    \/ startsWith(element.name, Qualified(featureName, <<>>))

isExported(element) ==
    ~(isAssociatedWithFeature(element, coreName)
        \/ isAssociatedWithFeature(element, joinName))

\* The (type, field) pairs that carry @join__field.
JoinedFields(types) ==
    UNION {{<<types[i].name, types[i].fields[j].name>> :
               j \in {j \in DOMAIN types[i].fields : types[i].fields[j].field.applied}} :
           i \in DOMAIN types}

\* The arguments of @join__field on a field.
FieldArgs(types, typeName, fieldName) ==
    LET type == CHOOSE t \in Range(types) : t.name = typeName
        f == CHOOSE g \in Range(type.fields) : g.name = fieldName
    IN  f.field

\* The schema and metadata returned when no assertion fails.
ComposedSchema(d, graphMap) ==
    LET joined == JoinedTypes(d.types) IN
    [done |-> TRUE, ok |-> TRUE,
     graphs |-> graphMap,
     typeFederation |->
        [n \in {joined[i].name : i \in DOMAIN joined} |->
            TypeMetadata(CHOOSE t \in Range(joined) : t.name = n, graphMap)],
     fieldFederation |->
        [tf \in JoinedFields(joined) |->
            FieldMetadata(FieldArgs(joined, tf[1], tf[2]), graphMap)],
     types |-> SelectSeq([i \in DOMAIN d.types |-> d.types[i].name],
                         LAMBDA n : isExported([isDirective |-> FALSE, name |-> n])),
     directives |-> {n \in d.directives :
                        isExported([isDirective |-> TRUE, name |-> n])}]

\* The first element of a sequence that satisfies Test.
FirstSuch(seq, Test(_)) ==
    seq[CHOOSE i \in DOMAIN seq :
            Test(seq[i]) /\ \A j \in 1..(i - 1) : ~Test(seq[j])]

\* The function: the first failing assertion or feature test throws; the
\* schema is returned when none fails.  The assertions on astNode are left
\* out: every type and field of a schema built from a document has one.
buildComposedSchema(d) ==
    IF coreName \notin d.directives
    THEN Thrown("AssertionError",
                <<"Expected core schema, but can't find @core directive">>)
    ELSE IF \E i \in DOMAIN d.features : ~SupportedFeature(d.features[i])
    THEN Thrown("GraphQLError",
                <<"Unsupported core schema feature and/or version: ",
                  FirstSuch(d.features, LAMBDA f : ~SupportedFeature(f))>>)
    ELSE LET joinDirectives == <<ownerDirectiveName, typeDirectiveName,
                                 fieldDirectiveName, graphDirectiveName>>
             graphEnums == SelectSeq(d.types, LAMBDA t : t.name = graphEnumName)
    IN
    IF \E i \in DOMAIN joinDirectives : joinDirectives[i] \notin d.directives
    THEN Thrown("AssertionError",
                <<"Composed schema should define directive",
                  FirstSuch(joinDirectives, LAMBDA n : n \notin d.directives)>>)
    ELSE IF graphEnums = <<>> \/ ~isEnumType(graphEnums[1])
    THEN Thrown("AssertionError", <<"join__Graph should be an enum">>)
    ELSE LET values == graphEnums[1].values IN
    IF \E i \in DOMAIN values : ~values[i].graph.applied
    THEN Thrown("AssertionError",
                <<"join__Graph value should have a @join__graph directive",
                  LET value == FirstSuch(values, LAMBDA v : ~v.graph.applied)
                  IN  value.name>>)
    ELSE LET graphMap == GraphMapUpTo(values, Len(values))
             joined == JoinedTypes(d.types)
    IN
    IF \E i \in DOMAIN joined : TypeAssertion(joined[i], graphMap) # <<>>
    THEN Thrown("AssertionError",
                TypeAssertion(FirstSuch(joined,
                                  LAMBDA t : TypeAssertion(t, graphMap) # <<>>),
                              graphMap))
    ELSE ComposedSchema(d, graphMap)

(***************************************************************************)
(* Inputs of buildComposedSchema: supergraph documents.                    *)
(***************************************************************************)
\* Most @core applications on the schema definition.
MaxFeatures == 2
\* Most @join__type applications on a type.
MaxTypeApps == 2

\* An argument that is not given.
Absent == [present |-> FALSE, value |-> <<>>]
Given(value) == [present |-> TRUE, value |-> value]

NoOwner == [applied |-> FALSE, graph |-> Undefined]
Owner(graph) == [applied |-> TRUE, graph |-> graph]
NoField ==
    [applied |-> FALSE, graph |-> Undefined, requires |-> Absent, provides |-> Absent]
NoGraph == [applied |-> FALSE, name |-> Undefined, url |-> Undefined]

PlainType(name, kind) ==
    [name |-> name, kind |-> kind, values |-> <<>>, owner |-> NoOwner,
     typeApps |-> <<>>, fields |-> <<>>]

SubgraphNames == {"accounts", "products"}

\* The values join__Graph may have: A always, B sometimes; each without
\* @join__graph or with one that names a subgraph.  Z is never a value.
GraphValues(name, url) ==
    {[name |-> name, graph |-> NoGraph]} \cup
    {[name |-> name, graph |-> [applied |-> TRUE, name |-> n, url |-> url]] :
        n \in SubgraphNames}

GraphEnumValues ==
    {<<a>> : a \in GraphValues("A", "http://a")} \cup
    {<<a, b>> : a \in GraphValues("A", "http://a"), b \in GraphValues("B", "http://b")}

GraphEnum(values) == [PlainType(graphEnumName, "Enum") EXCEPT !.values = values]

\* The @join__type applications a type may carry.
TypeApps ==
    {[graph |-> "A", key |-> <<"upc">>], [graph |-> "A", key |-> <<"sku", "id">>],
     [graph |-> "B", key |-> <<"upc">>], [graph |-> "Z", key |-> <<"upc">>]}

\* The @join__field applications a field may carry.
FieldApps ==
    {NoField} \cup
    [applied : {TRUE}, graph : {Undefined, "A", "Z"},
     requires : {Absent, Given(<<>>), Given(<<"weight">>)},
     provides : {Absent, Given(<<"name">>)}]

ProductName == <<"P", "r", "o", "d", "u", "c", "t">>
QueryName == <<"Q", "u", "e", "r", "y">>
NodeName == <<"N", "o", "d", "e">>

Product(owner, typeApps, fieldApp) ==
    [PlainType(ProductName, "Object") EXCEPT
        !.owner = owner, !.typeApps = typeApps,
        !.fields = <<[name |-> "upc", field |-> NoField],
                     [name |-> "price", field |-> fieldApp]>>]

\* An introspection type, an interface that carries @join__owner and
\* @join__field, and an object type that carries nothing.
FixedTypes ==
    <<PlainType(<<"_", "_", "S", "c", "h", "e", "m", "a">>, "Object"),
      [PlainType(NodeName, "Interface") EXCEPT
          !.owner = Owner("A"),
          !.fields = <<[name |-> "id",
                        field |-> [applied |-> TRUE, graph |-> "A",
                                   requires |-> Absent, provides |-> Absent]]>>],
      [PlainType(QueryName, "Object") EXCEPT
          !.fields = <<[name |-> "me", field |-> NoField]>>]>>

StdDirectives ==
    {coreName, ownerDirectiveName, typeDirectiveName, fieldDirectiveName,
     graphDirectiveName}

StdFeatures == <<CoreV01, JoinV01>>

StdGraphEnum ==
    GraphEnum(<<[name |-> "A",
                 graph |-> [applied |-> TRUE, name |-> "accounts", url |-> "http://a"]],
                [name |-> "B",
                 graph |-> [applied |-> TRUE, name |-> "products", url |-> "http://b"]]>>)

StdProduct ==
    Product(Owner("B"), <<[graph |-> "B", key |-> <<"upc">>]>>, NoField)

\* Documents that vary the join metadata of the graph enum and of Product.
BodyDocs ==
    {[directives |-> StdDirectives, features |-> StdFeatures,
      types |-> <<GraphEnum(values)>> \o FixedTypes \o <<Product(o, apps, f)>>] :
        values \in GraphEnumValues,
        o \in {NoOwner, Owner("A"), Owner("B"), Owner("Z")},
        apps \in SeqsOf(TypeApps, 0, MaxTypeApps),
        f \in FieldApps}

\* The features a @core application may name.
Features ==
    {CoreV01, JoinV01, "https://specs.apollo.dev/join/v0.2",
     "https://specs.apollo.dev/tag/v0.1"}

\* Documents that vary the @core applications, the directives that are
\* defined and the definition of join__Graph.
HeaderDocs ==
    {[directives |-> StdDirectives \ missing, features |-> features,
      types |-> graphEnum \o FixedTypes \o <<StdProduct>>] :
        missing \in {{}} \cup {{n} : n \in StdDirectives},
        features \in SeqsOf(Features, 0, MaxFeatures),
        graphEnum \in {<<StdGraphEnum>>, <<>>, <<PlainType(graphEnumName, "Scalar")>>}}

\* Further directive names: the bare feature names, prefixed names, and names
\* that are close to a prefix.
ExtraDirectiveNames ==
    {joinName, Qualified(coreName, <<"x">>), <<"t", "a", "g">>,
     coreName \o <<"_", "x">>, <<"x">> \o Qualified(joinName, <<"x">>)}

\* Further type names, in their order in the document.
ExtraTypeNames ==
    <<coreName, joinName, Qualified(joinName, <<"F", "i", "e", "l", "d", "S", "e", "t">>),
      Qualified(coreName, <<>>), coreName \o <<"_">>, <<"J", "o", "i", "n", "_", "_", "x">>>>

\* Documents that vary the names of the directives and types.
NameDocs ==
    {[directives |-> StdDirectives \cup ds, features |-> StdFeatures,
      types |-> <<StdGraphEnum>> \o FixedTypes \o <<StdProduct>>
                \o [i \in 1..Len(ts) |-> PlainType(ts[i], "Scalar")]] :
        ds \in SUBSET ExtraDirectiveNames,
        ts \in {SelectSeq(ExtraTypeNames, LAMBDA n : n \in S) :
                   S \in SUBSET Range(ExtraTypeNames)}}

Docs == BodyDocs \cup HeaderDocs \cup NameDocs

InitBuild ==
    /\ doc \in Docs
    /\ result = NotRun
    /\ kIn = Unused /\ kOut = NotRun
    /\ pIn = Unused /\ pOut = NotRun
    /\ remote = Unused

\* A call of buildComposedSchema on the document.
BuildComposedSchema ==
    /\ ~result.done
    /\ result' = buildComposedSchema(doc)
    /\ UNCHANGED <<kIn, kOut, doc, pIn, pOut, remote>>

NextBuild == BuildComposedSchema

SpecBuild == InitBuild /\ [][NextBuild]_vars

(***************************************************************************)
(* Claims about buildComposedSchema                                        *)
(***************************************************************************)
\* name begins with the characters of prefix.
HasPrefix(name, prefix) ==
    \E k \in 0..Len(name) : [i \in 1..k |-> name[i]] = prefix

CorePrefix == <<"c", "o", "r", "e", "_", "_">>
JoinPrefix == <<"j", "o", "i", "n", "_", "_">>

\* The definition of join__Graph in the document, when the call succeeded.
DocGraphValues ==
    LET enum == CHOOSE t \in Range(doc.types) : t.name = graphEnumName
    IN  enum.values

\* The subgraph name @join__graph gives to an enum value of the document.
DocSubgraphOf(graph) ==
    LET value == CHOOSE v \in Range(DocGraphValues) : v.name = graph
    IN  value.graph.name

DocGraphNames == {v.name : v \in Range(DocGraphValues)}

\* The types of the document the join metadata is read from.
DocObjectTypes ==
    {t \in Range(doc.types) : t.kind = "Object" /\ t.name \notin IntrospectionNames}

\* C3: a document with a @core application whose feature is neither core/v0.1
\* nor join/v0.1 makes buildComposedSchema fail with an error record whose
\* code is UNSUPPORTED_FEATURE; no schema is returned.
C3_UnsupportedFeatureCode ==
    (result.done /\ \E i \in DOMAIN doc.features :
                        doc.features[i] \notin {CoreV01, JoinV01})
    => /\ ~result.ok
       /\ "code" \in DOMAIN result.error.extensions
       /\ result.error.extensions["code"] = "UNSUPPORTED_FEATURE"

\* C4: the returned schema has no type or directive whose name starts with
\* core__ or join__ and no directive named core or join; every other type
\* and directive of the document is kept, a type named core or join included.
C4_ExportedElements ==
    (result.done /\ result.ok) =>
        /\ \A n \in Range(result.types) \cup result.directives :
              ~HasPrefix(n, CorePrefix) /\ ~HasPrefix(n, JoinPrefix)
        /\ result.directives \cap {coreName, joinName} = {}
        /\ \A t \in Range(doc.types) :
              (~HasPrefix(t.name, CorePrefix) /\ ~HasPrefix(t.name, JoinPrefix))
              => t.name \in Range(result.types)
        /\ \A n \in doc.directives :
              (~HasPrefix(n, CorePrefix) /\ ~HasPrefix(n, JoinPrefix)
                  /\ n \notin {coreName, joinName})
              => n \in result.directives
        /\ Range(result.types) \subseteq {t.name : t \in Range(doc.types)}
        /\ result.directives \subseteq doc.directives

\* A schema was returned for a document with types named core and core__ and
\* directives named join and tag: the type core and the directive tag are
\* kept, the type core__ and the directive join are not.
C4_Witness ==
    /\ result.done /\ result.ok
    /\ {coreName, CorePrefix} \subseteq {t.name : t \in Range(doc.types)}
    /\ {joinName, <<"t", "a", "g">>} \subseteq doc.directives
    /\ coreName \in Range(result.types)
    /\ CorePrefix \notin Range(result.types)
    /\ <<"t", "a", "g">> \in result.directives
    /\ joinName \notin result.directives

\* C5: after a successful call the graph table has exactly one entry per
\* value of join__Graph, built from the value's @join__graph(name:, url:),
\* and no two enum values map to the same subgraph name.
C5_GraphTableBijection ==
    (result.done /\ result.ok) =>
        /\ DOMAIN result.graphs = DocGraphNames
        /\ \A v \in Range(DocGraphValues) :
              result.graphs[v.name] = [name |-> v.graph.name, url |-> v.graph.url]
        /\ \A a, b \in DOMAIN result.graphs :
              result.graphs[a].name = result.graphs[b].name => a = b

\* C6: every non-introspection object type gets type metadata: an entity
\* (isValueType false, graphName the subgraph of its @join__owner graph) iff
\* it carries @join__owner, else a value type without owner and keys; other
\* types get no federation metadata.
C6_TypeMetadata ==
    (result.done /\ result.ok) =>
        /\ DOMAIN result.typeFederation = {t.name : t \in DocObjectTypes}
        /\ \A t \in DocObjectTypes :
              LET meta == result.typeFederation[t.name] IN
              /\ meta.isValueType = ~t.owner.applied
              /\ t.owner.applied =>
                    /\ "keys" \in DOMAIN meta
                    /\ meta.graphName = DocSubgraphOf(t.owner.graph)
              /\ ~t.owner.applied => DOMAIN meta = {"isValueType"}

\* A schema was returned for a document whose Product is owned by graph B,
\* which names the subgraph accounts, next to the value type Query and the
\* interface Node.
C6_Witness ==
    /\ result.done /\ result.ok
    /\ \E t \in DocObjectTypes :
          /\ t.name = ProductName /\ t.owner = Owner("B")
          /\ DocSubgraphOf("B") = "accounts"
          /\ result.typeFederation[ProductName].graphName = "accounts"
    /\ result.typeFederation[QueryName].isValueType
    /\ NodeName \notin DOMAIN result.typeFederation

\* The keys the @join__type applications of a type file under a subgraph.
DocKeysOf(t, subgraph) ==
    LET apps == SelectSeq(t.typeApps, LAMBDA a : DocSubgraphOf(a.graph) = subgraph)
    IN  [i \in DOMAIN apps |-> [j \in DOMAIN apps[i].key |->
                                   [kind |-> "Field", name |-> apps[i].key[j]]]]

\* C7: the keys multimap of an entity holds exactly one FieldSet per
\* @join__type application, filed under the subgraph name its graph argument
\* maps to, in application order; applications for one graph accumulate.
C7_KeysMultiMap ==
    (result.done /\ result.ok) =>
        \A t \in {t \in DocObjectTypes : t.owner.applied} :
            LET keys == result.typeFederation[t.name].keys IN
            /\ DOMAIN keys = {DocSubgraphOf(t.typeApps[i].graph) : i \in DOMAIN t.typeApps}
            /\ \A subgraph \in DOMAIN keys : keys[subgraph] = DocKeysOf(t, subgraph)

\* A schema was returned for a Product with two @join__type applications for
\* graph A, whose keys are filed in order under the subgraph A names.
C7_Witness ==
    /\ result.done /\ result.ok
    /\ \E t \in DocObjectTypes :
          /\ t.typeApps = <<[graph |-> "A", key |-> <<"sku", "id">>],
                            [graph |-> "A", key |-> <<"upc">>]>>
          /\ DocSubgraphOf("A") = "products"
          /\ Len(result.typeFederation[t.name].keys["products"]) = 2
          /\ result.typeFederation[t.name].keys["products"][2] =
                <<[kind |-> "Field", name |-> "upc"]>>

\* The fields of the object types of the document, with their types.
DocObjectFields ==
    UNION {{[type |-> t.name, name |-> t.fields[i].name, field |-> t.fields[i].field] :
               i \in DOMAIN t.fields} : t \in DocObjectTypes}

\* What C8 says apart from the graph name: metadata iff @join__field, requires
\* iff a non-empty requires argument, provides iff a non-empty provides one.
FieldMetadataShape ==
    /\ DOMAIN result.fieldFederation =
          {<<f.type, f.name>> : f \in {g \in DocObjectFields : g.field.applied}}
    /\ \A f \in {g \in DocObjectFields : g.field.applied} :
          LET meta == result.fieldFederation[<<f.type, f.name>>] IN
          /\ "requires" \in DOMAIN meta
                <=> (f.field.requires.present /\ f.field.requires.value # <<>>)
          /\ "provides" \in DOMAIN meta
                <=> (f.field.provides.present /\ f.field.provides.value # <<>>)

\* C8 as stated: a field of an object type gets field metadata iff it
\* carries @join__field; its graphName is the name of a subgraph of the
\* graph table; requires and provides are set iff given and non-empty.
C8_FieldMetadataGraphInTable ==
    (result.done /\ result.ok) =>
        /\ FieldMetadataShape
        /\ \A tf \in DOMAIN result.fieldFederation :
              \E g \in DOMAIN result.graphs :
                  result.fieldFederation[tf].graphName = result.graphs[g].name

\* C8 as amended: the graphName is the name of the subgraph the graph value
\* maps to in the graph table, or undefined when the directive has no graph
\* argument or its value is not in the table.
C8_FieldMetadata ==
    (result.done /\ result.ok) =>
        /\ FieldMetadataShape
        /\ \A f \in {g \in DocObjectFields : g.field.applied} :
              result.fieldFederation[<<f.type, f.name>>].graphName =
                 IF f.field.graph \in DocGraphNames
                 THEN DocSubgraphOf(f.field.graph) ELSE Undefined

\* A schema was returned for a Product.price with @join__field(requires:
\* "weight", provides: "") and no graph: its metadata has requires, no
\* provides and an undefined graphName.
C8_Witness ==
    /\ result.done /\ result.ok
    /\ \E f \in DocObjectFields :
          /\ f.name = "price"
          /\ f.field = [applied |-> TRUE, graph |-> Undefined,
                        requires |-> Given(<<"weight">>), provides |-> Absent]
          /\ result.fieldFederation[<<f.type, f.name>>] =
                [graphName |-> Undefined,
                 requires |-> <<[kind |-> "Field", name |-> "weight"]>>]

\* C9: every entity type of a successful call has at least one key recorded
\* for its owning subgraph.
C9_EntityHasOwnerKey ==
    (result.done /\ result.ok) =>
        \A n \in DOMAIN result.typeFederation :
            LET meta == result.typeFederation[n] IN
            ~meta.isValueType =>
                /\ meta.graphName \in DOMAIN meta.keys
                /\ Len(meta.keys[meta.graphName]) >= 1

(***************************************************************************)
(* providesFieldsMissingExternal                                           *)
(*                                                                         *)
(* The composed schema is kept as the fields that carry @provides, each    *)
(* with the service that declares it and the type it returns, and the      *)
(* fields each service marks @external.                                    *)
(***************************************************************************)
\* Most fields that carry @provides.
MaxProviding == 2
\* Most fields one @provides names.
MaxProvided == 1

\* The external test that accepts an @external of any service.
IsExternalAnywhere(in, serviceName, typeName, name) ==
    \E e \in in.externals : e.type = typeName /\ e.field = name

\* Is the field marked @external on the type by the service?
IsExternalIn(in, serviceName, typeName, name) ==
    [service |-> serviceName, type |-> typeName, field |-> name] \in in.externals

\* The errors for one field that carries @provides: one per provided field
\* that the providing service does not mark @external on the returned type.
ProvidesErrors(in, f) ==
    Flatten([i \in DOMAIN f.provides |->
        IF IsExternalIn(in, f.service, f.returns, f.provides[i]) THEN <<>>
        ELSE <<[code |-> "PROVIDES_FIELDS_MISSING_EXTERNAL", service |-> f.service,
                type |-> f.type, field |-> f.field,
                provided |-> f.provides[i], on |-> f.returns]>>])

providesFieldsMissingExternal(in) ==
    Flatten([i \in DOMAIN in.providing |-> ProvidesErrors(in, in.providing[i])])

ProvidingServices == {"serviceB", "serviceC"}

\* Review.product: Product and Review.author: User, declared by a service
\* with a @provides.
ProvidingFields ==
    {[service |-> sv, type |-> "Review", field |-> r[1], returns |-> r[2],
      provides |-> p] :
        sv \in ProvidingServices,
        r \in {<<"product", "Product">>, <<"author", "User">>},
        p \in SeqsOf({"id", "username"}, 1, MaxProvided)}

Externals ==
    [service : ProvidingServices,
     type : {"Product", "User"}, field : {"id", "username"}]
    \cup [service : ProvidingServices, type : {"Product"}, field : {"sku"}]

ProvidesInputs ==
    [providing : SeqsOf(ProvidingFields, 0, MaxProviding),
     externals : {E \in SUBSET Externals :
                     \A e \in E : e.type = "User" => e.field = "username"}]

InitProvides ==
    /\ pIn \in ProvidesInputs
    /\ pOut = NotRun
    /\ kIn = Unused /\ kOut = NotRun
    /\ doc = Unused /\ result = NotRun
    /\ remote = Unused

\* A call of the validator on the composed schema.
ValidateProvides ==
    /\ ~pOut.done
    /\ pOut' = [done |-> TRUE, errors |-> providesFieldsMissingExternal(pIn)]
    /\ UNCHANGED <<kIn, kOut, doc, result, pIn, remote>>

NextProvides == ValidateProvides

SpecProvides == InitProvides /\ [][NextProvides]_vars

\* The (providing field, provided field) occurrences of the input, in order
\* of appearance, that the providing service does not mark @external.
MissingExternals ==
    {<<i, j>> \in (1..Len(pIn.providing)) \X (1..MaxProvided + 1) :
        /\ j \in DOMAIN pIn.providing[i].provides
        /\ [service |-> pIn.providing[i].service, type |-> pIn.providing[i].returns,
            field |-> pIn.providing[i].provides[j]] \notin pIn.externals}

\* C10: no error when every field of every @provides is @external on the
\* referenced type in the providing service; otherwise one error with code
\* PROVIDES_FIELDS_MISSING_EXTERNAL per provided field the service does not
\* mark @external, naming the service, the providing field and the field.
C10_ProvidesMissingExternal ==
    pOut.done =>
        /\ MissingExternals = {} => pOut.errors = <<>>
        /\ Len(pOut.errors) = Cardinality(MissingExternals)
        /\ \A e \in Range(pOut.errors) : e.code = "PROVIDES_FIELDS_MISSING_EXTERNAL"
        /\ \A m \in MissingExternals :
              LET f == pIn.providing[m[1]] IN
              Cardinality({k \in DOMAIN pOut.errors :
                              /\ pOut.errors[k].service = f.service
                              /\ pOut.errors[k].type = f.type
                              /\ pOut.errors[k].field = f.field
                              /\ pOut.errors[k].provided = f.provides[m[2]]})
              = Cardinality({n \in MissingExternals :
                                /\ pIn.providing[n[1]].service = f.service
                                /\ pIn.providing[n[1]].field = f.field
                                /\ pIn.providing[n[1]].provides[n[2]] = f.provides[m[2]]})

\* The second test of the validator: serviceB's Review.product provides id,
\* serviceB marks only Product.sku @external, and the one error names
\* serviceB, Review.product and id, although serviceC marks Product.id
\* @external.
C10_Witness ==
    /\ pOut.done
    /\ pIn.providing = <<[service |-> "serviceB", type |-> "Review",
                          field |-> "product", returns |-> "Product",
                          provides |-> <<"id">>]>>
    /\ pIn.externals = {[service |-> "serviceB", type |-> "Product", field |-> "sku"],
                        [service |-> "serviceC", type |-> "Product", field |-> "id"]}
    /\ pOut.errors = <<[code |-> "PROVIDES_FIELDS_MISSING_EXTERNAL",
                        service |-> "serviceB", type |-> "Review", field |-> "product",
                        provided |-> "id", on |-> "Product"]>>

(***************************************************************************)
(* Further claims about keyFieldsSelectInvalidType                         *)
(***************************************************************************)
\* The places of the top-level key fields of the composed schema: type i,
\* entry j of its keys, key k of the entry, field l of the key.
KeyPlaces ==
    {q \in (DOMAIN kIn.schema) \X (1..Len(KeyServices)) \X (1..MaxKeys + 1)
               \X (1..MaxSel + 1) :
        /\ kIn.schema[q[1]].kind = "Object"
        /\ kIn.schema[q[1]].federation.hasKeys
        /\ q[2] \in DOMAIN kIn.schema[q[1]].federation.keys
        /\ q[3] \in DOMAIN kIn.schema[q[1]].federation.keys[q[2]].selectionSets
        /\ q[4] \in DOMAIN kIn.schema[q[1]].federation.keys[q[2]].selectionSets[q[3]]}

PlaceType(q) == kIn.schema[q[1]]
PlaceService(q) == kIn.schema[q[1]].federation.keys[q[2]].serviceName
PlaceName(q) == kIn.schema[q[1]].federation.keys[q[2]].selectionSets[q[3]][q[4]].name

\* The selected name is not a field of the type.
PlaceMissing(q) == PlaceName(q) \notin DOMAIN PlaceType(q).fields

\* The selected field is an interface or a union, bare or under non-null.
PlaceAbstract(q) ==
    /\ ~PlaceMissing(q)
    /\ PlaceType(q).fields[PlaceName(q)] \in AbstractOrNonNullAbstract

\* The errors returned for a service, a type and a field name.
ErrorsAbout(service, type, name) ==
    {i \in DOMAIN kOut.errors :
        /\ kOut.errors[i].service = service
        /\ kOut.errors[i].type = type
        /\ kOut.errors[i].field = name}

\* C11: the validator aggregates: the returned list has exactly one error per
\* (service, key, top-level field) occurrence that is missing on the type or
\* is interface or union typed, and is empty when every top-level key field
\* exists and is a scalar, enum or object type.
C11_ErrorsAggregated ==
    kOut.done =>
        /\ Len(kOut.errors) =
              Cardinality({q \in KeyPlaces : PlaceMissing(q) \/ PlaceAbstract(q)})
        /\ \A q \in KeyPlaces :
              Cardinality(ErrorsAbout(PlaceService(q), PlaceType(q).name, PlaceName(q)))
              = Cardinality({r \in KeyPlaces :
                                /\ PlaceService(r) = PlaceService(q)
                                /\ PlaceType(r).name = PlaceType(q).name
                                /\ PlaceName(r) = PlaceName(q)
                                /\ (PlaceMissing(r) \/ PlaceAbstract(r))})
        /\ (\A q \in KeyPlaces :
               /\ ~PlaceMissing(q)
               /\ PlaceType(q).fields[PlaceName(q)].kind \in {"Scalar", "Enum", "Object"})
           => kOut.errors = <<>>

\* The validator has run on a schema with three faulty key fields, a missing
\* one and an interface one on Product and a union one on Review, and
\* returned the three errors in the order of the scan.
C11_Witness ==
    /\ kOut.done
    /\ Len(kOut.errors) = 3
    /\ kOut.errors[1].type = "Product" /\ kOut.errors[1].what = "could not be found"
    /\ kOut.errors[2].type = "Product" /\ kOut.errors[2].what = "interface"
    /\ kOut.errors[3].type = "Review" /\ kOut.errors[3].what = "union"

\* C16: a top-level key name that is not a field of the composed type gets
\* exactly one error per occurrence, which says that the field could not be
\* found and has code KEY_FIELDS_SELECT_INVALID_TYPE, and no interface or
\* union error.
C16_MissingKeyField ==
    kOut.done =>
        \A q \in {r \in KeyPlaces : PlaceMissing(r)} :
            LET about == ErrorsAbout(PlaceService(q), PlaceType(q).name, PlaceName(q)) IN
            /\ Cardinality(about) =
                  Cardinality({r \in KeyPlaces :
                                  /\ PlaceService(r) = PlaceService(q)
                                  /\ PlaceType(r) = PlaceType(q)
                                  /\ PlaceName(r) = PlaceName(q)})
            /\ \A i \in about :
                  /\ kOut.errors[i].what = "could not be found"
                  /\ kOut.errors[i].code = "KEY_FIELDS_SELECT_INVALID_TYPE"

\* The validator has run on a Product without the field upc whose only key,
\* declared by S2, selects upc, and returned the one error for it.
C16_Witness ==
    /\ kOut.done
    /\ kIn.schema[1].fields = <<>>
    /\ kIn.schema[1].federation =
          [hasKeys |-> TRUE,
           keys |-> <<[serviceName |-> "S1", selectionSets |-> <<>>],
                      [serviceName |-> "S2",
                       selectionSets |-> <<(<<[name |-> "upc"]>>)>>]>>]
    /\ kIn.schema[2].name = "Node"
    /\ kOut.errors = <<[code |-> "KEY_FIELDS_SELECT_INVALID_TYPE", service |-> "S2",
                        type |-> "Product", field |-> "upc",
                        what |-> "could not be found"]>>

(***************************************************************************)
(* Further claims about buildComposedSchema                                *)
(***************************************************************************)
\* The definitions of join__Graph as an enum in the document.
DocGraphEnums ==
    {t \in Range(doc.types) : t.name = graphEnumName /\ t.kind = "Enum"}

\* The values of join__Graph, none when the enum is not defined.
DocEnumValues == UNION {Range(t.values) : t \in DocGraphEnums}

\* The keys of the graph table: the names of the values of join__Graph.
DocTableKeys == {v.name : v \in DocEnumValues}

\* The document breaks one of the rules of C15.
BreaksJoinRule ==
    \/ \E t \in DocObjectTypes : ~t.owner.applied /\ t.typeApps # <<>>
    \/ \E t \in DocObjectTypes : t.owner.applied /\ t.owner.graph \notin DocTableKeys
    \/ \E t \in DocObjectTypes :
          \E i \in DOMAIN t.typeApps : t.typeApps[i].graph \notin DocTableKeys
    \/ \E v \in DocEnumValues : ~v.graph.applied
    \/ coreName \notin doc.directives
    \/ \E n \in {<<"o", "w", "n", "e", "r">>, <<"t", "y", "p", "e">>,
                 <<"f", "i", "e", "l", "d">>, <<"g", "r", "a", "p", "h">>} :
          JoinPrefix \o n \notin doc.directives
    \/ DocGraphEnums = {}

\* The document has a @core application with an unsupported feature.
HasUnsupportedFeature ==
    \E i \in DOMAIN doc.features : doc.features[i] \notin {CoreV01, JoinV01}

\* C15 as stated: a document that breaks one of the rules makes
\* buildComposedSchema fail with an assertion error; no schema is returned.
C15_JoinRuleAssertion ==
    (result.done /\ BreaksJoinRule) =>
        ~result.ok /\ result.error.kind = "AssertionError"

\* C15 as amended: the call fails and returns no schema; the error is an
\* assertion error unless @core is defined and one of its applications has
\* an unsupported feature, and then it is the GraphQLError of that feature.
C15_JoinRuleFailure ==
    (result.done /\ BreaksJoinRule) =>
        /\ ~result.ok
        /\ result.error.kind =
              IF coreName \in doc.directives /\ HasUnsupportedFeature
              THEN "GraphQLError" ELSE "AssertionError"

\* The call has failed on a document whose Product carries @join__type for a
\* graph of the table and no @join__owner, with the assertion on that.
C15_Witness ==
    /\ result.done /\ ~result.ok
    /\ \E t \in DocObjectTypes :
          /\ ~t.owner.applied
          /\ t.typeApps = <<[graph |-> "A", key |-> <<"upc">>]>>
    /\ \A v \in DocEnumValues : v.graph.applied
    /\ result.error.kind = "AssertionError"
    /\ result.error.message =
          <<"cannot have a @join__type directive without an @join__owner directive",
            ProductName>>

(***************************************************************************)
(* RemoteGraphQLDataSource.process                                         *)
(*                                                                         *)
(* A request is a function from its property names to their values, so     *)
(* that a property is present or not.  A URL is its base and the           *)
(* parameters of its query string.                                         *)
(***************************************************************************)
\* { ...f } without the property k
Without(f, k) == [x \in DOMAIN f \ {k} |-> f[x]]
\* { ...f, k: v }
With(f, k, v) == [x \in DOMAIN f \cup {k} |-> IF x = k THEN v ELSE f[x]]

\* createSHA('sha256').update(query).digest('hex')
Sha256(query) == <<"sha256", query>>

\* rewriteURIForGET(url, request): a parse error for a URL that does not
\* parse, else the URL with the properties of the request, http excepted, in
\* its query string.
rewriteURIForGET(url, request) ==
    IF ~url.rewrites THEN [parseError |-> TRUE, newURI |-> url]
    ELSE [parseError |-> FALSE,
          newURI |-> [url EXCEPT !.params = Without(request, "http")]]

\* !request.query
MissingQuery(request) ==
    IF "query" \in DOMAIN request THEN request.query = "" ELSE TRUE

\* The extensions of the request, {} when it has none.
ExtensionsOf(request) ==
    IF "extensions" \in DOMAIN request THEN request.extensions ELSE <<>>

\* Lines 74-81: the headers of the incoming request, or new ones, with
\* Content-Type set, in a POST to this.url.
WithHttp(cfg, request) ==
    LET headers == IF "http" \in DOMAIN request THEN request.http.headers ELSE <<>>
    IN  With(request, "http",
             [method |-> "POST", url |-> cfg.url,
              headers |-> With(headers, "Content-Type", "application/json")])

\* What the willSendRequest of the data source does to the request.
WillSendRequestIgnored(cfg, request) == request
WillSendRequest(cfg, request) ==
    CASE cfg.willSendRequest = "setQuery" -> With(request, "query", "{ topProducts }")
      [] cfg.willSendRequest = "deleteQuery" -> Without(request, "query")
      [] cfg.willSendRequest = "setHeader" ->
            [request EXCEPT !.http.headers = With(@, "authorization", "token")]
      [] OTHER -> request

\* respond(response, request): the result of didReceiveResponse when it is a
\* function, else the response.
Respond(cfg, response) ==
    IF cfg.didReceiveResponse THEN With(response, "fromDidReceiveResponse", "yes")
    ELSE response

\* Lines 111-117: the request without its query, with the APQ extensions.
RequestWithoutQuery(request) ==
    With(Without(request, "query"), "extensions",
         With(ExtensionsOf(request), "persistedQuery",
              [version |-> 1, sha256Hash |-> Sha256(request.query)]))

\* Lines 141-145: the http of the hash-only attempt when GET is not asked
\* for.
OptimisticApqHttpPost(cfg, httpRequest) ==
    [httpRequest EXCEPT !.method = "GET", !.url = cfg.url]

\* Lines 192-196: the http of the attempt with the query when GET is not
\* asked for.
QueryHttpPost(cfg, httpRequest) ==
    [httpRequest EXCEPT !.method = "POST", !.url = cfg.url]

\* Lines 135-139 and 186-190: the http of an attempt by GET.
ApqHttpGet(httpRequest, uri) ==
    [httpRequest EXCEPT !.method = "GET", !.url = uri]

\* Lines 226-234 and 241-244: the call of the fetcher for a request.
FetchCallKeepsHttp(request) ==
    [url |-> request.http.url, method |-> request.http.method,
     headers |-> request.http.headers,
     hasBody |-> request.http.method = "POST",
     body |-> IF request.http.method = "POST" THEN request ELSE <<>>]
FetchCall(request) ==
    LET requestWithoutHttp == Without(request, "http") IN
    [url |-> request.http.url, method |-> request.http.method,
     headers |-> request.http.headers,
     hasBody |-> request.http.method = "POST",
     body |-> IF request.http.method = "POST" THEN requestWithoutHttp ELSE <<>>]

\* The response has an error whose message is PersistedQueryNotFound.
PersistedQueryNotFound(response) ==
    /\ "errors" \in DOMAIN response
    /\ \E i \in DOMAIN response.errors :
          response.errors[i].message = "PersistedQueryNotFound"

\* this.url, which rewriteURIForGET rewrites or reports a parseError for.
DataSourceUrls == [base : {"http://accounts"}, rewrites : BOOLEAN, params : {<<>>}]

\* The data sources: apq and useGETForHashedQueries set or not, and the hooks
\* defined or not.  A willSendRequest leaves the request alone, supplies a
\* query, deletes the query or sets a header.
DataSources ==
    [url : DataSourceUrls, apq : BOOLEAN, useGETForHashedQueries : BOOLEAN,
     willSendRequest : {"undefined", "noop", "setQuery", "deleteQuery", "setHeader"},
     didReceiveResponse : BOOLEAN]

\* The http of an incoming request.
IncomingHttp ==
    [method |-> "GET", url |-> [base |-> "http://gateway", rewrites |-> TRUE, params |-> <<>>],
     headers |-> [n \in {"apollo-federation-include-trace"} |-> "ftv1"]]

\* The incoming requests: each of query, extensions and http present or not.
IncomingRequests ==
    {[n \in S |-> CASE n = "query" -> q
                    [] n = "extensions" -> [n2 \in {"tracing"} |-> "on"]
                    [] n = "http" -> IncomingHttp] :
        S \in SUBSET {"query", "extensions", "http"}, q \in {"{ me }", ""}}

\* The bodies of the responses the subgraph may give when the fetch succeeds.
ResponseBodies ==
    {[n \in {"data"} |-> "d"],
     [n \in {"errors"} |-> <<[message |-> "PersistedQueryNotFound"]>>],
     [n \in {"errors"} |-> <<[message |-> "Something else"]>>],
     [n \in {"data", "errors"} |->
        IF n = "data" THEN "d"
        ELSE <<[message |-> "Something else"], [message |-> "PersistedQueryNotFound"]>>]}

\* The ways a fetch fails inside sendRequest: the fetcher rejects, the
\* response is not ok, the body is not an object.
FetchFailures == {"fetch rejected", "response not ok", "body is not an object"}

Pending == [kind |-> "pending"]
Returned(value) == [kind |-> "returned", value |-> value]
ThrownBy(message) == [kind |-> "thrown", message |-> message]

InitRemote ==
    /\ remote \in [cfg : DataSources, request : IncomingRequests, pc : {"start"},
                   out : {<<>>}, attempt : {0}, sent : {<<>>}, response : {<<>>},
                   received : {<<>>}, log : {<<>>}, ret : {Pending}]
    /\ kIn = Unused /\ kOut = NotRun
    /\ doc = Unused /\ result = NotRun
    /\ pIn = Unused /\ pOut = NotRun

others == <<kIn, kOut, doc, result, pIn, pOut>>

\* Lines 74-85: request.http is set and willSendRequest, if defined, runs.
Begin ==
    /\ remote.pc = "start"
    /\ remote' =
          [remote EXCEPT
              !.request = IF remote.cfg.willSendRequest = "undefined"
                          THEN WithHttp(remote.cfg, remote.request)
                          ELSE WillSendRequest(remote.cfg,
                                               WithHttp(remote.cfg, remote.request)),
              !.log = IF remote.cfg.willSendRequest = "undefined" THEN @
                      ELSE Append(@, "willSendRequest"),
              !.pc = "check"]
    /\ UNCHANGED others

\* Lines 87-89: the request has no query.
ThrowMissingQuery ==
    /\ remote.pc = "check"
    /\ MissingQuery(remote.request)
    /\ remote' = [remote EXCEPT !.ret = ThrownBy("Missing query"), !.pc = "done"]
    /\ UNCHANGED others

\* Lines 111-146: the hash-only request of APQ.
OptimisticRequest(cfg, request) ==
    LET requestWithoutQuery == RequestWithoutQuery(request)
        rewritten == rewriteURIForGET(cfg.url, requestWithoutQuery)
    IN  IF cfg.useGETForHashedQueries
        THEN [parseError |-> rewritten.parseError,
              request |-> With(requestWithoutQuery, "http",
                               ApqHttpGet(request.http, rewritten.newURI))]
        ELSE [parseError |-> FALSE,
              request |-> With(requestWithoutQuery, "http",
                               OptimisticApqHttpPost(cfg, request.http))]

\* Lines 165-197: the request of the second attempt, with the query.
RequestWithQuery(cfg, request) ==
    LET requestWithQuery == With(RequestWithoutQuery(request), "query", request.query)
        rewritten == rewriteURIForGET(cfg.url, requestWithQuery)
    IN  IF cfg.useGETForHashedQueries
        THEN [parseError |-> rewritten.parseError,
              request |-> With(requestWithQuery, "http",
                               ApqHttpGet(request.http, rewritten.newURI))]
        ELSE [parseError |-> FALSE,
              request |-> With(requestWithQuery, "http",
                               QueryHttpPost(cfg, request.http))]

\* Lines 91-146 and 204-207: the first request is built: the hash-only one
\* with apq, else the request itself.  A URL that does not parse throws.
Prepare ==
    /\ remote.pc = "check"
    /\ ~MissingQuery(remote.request)
    /\ LET first == IF remote.cfg.apq
                    THEN OptimisticRequest(remote.cfg, remote.request)
                    ELSE [parseError |-> FALSE, request |-> remote.request]
       IN  remote' =
              IF first.parseError
              THEN [remote EXCEPT !.ret = ThrownBy("parseError"), !.pc = "done"]
              ELSE [remote EXCEPT !.out = first.request, !.attempt = 1, !.pc = "send"]
    /\ UNCHANGED others

\* Lines 212-244: sendRequest calls the fetcher.
SendRequest ==
    /\ remote.pc = "send"
    /\ remote' = [remote EXCEPT !.sent = Append(@, FetchCall(remote.out)),
                                !.log = Append(@, "fetch"),
                                !.pc = "fetching"]
    /\ UNCHANGED others

\* Lines 246-263: the fetch fails; didEncounterError runs and the error is
\* thrown out of process.
FetchFails ==
    /\ remote.pc = "fetching"
    /\ \E failure \in FetchFailures :
          remote' = [remote EXCEPT !.log = Append(@, "didEncounterError"),
                                   !.ret = ThrownBy(failure), !.pc = "done"]
    /\ UNCHANGED others

\* Lines 246-259: the fetch succeeds and sendRequest returns the response.
FetchSucceeds ==
    /\ remote.pc = "fetching"
    /\ \E body \in ResponseBodies :
          remote' = [remote EXCEPT
                        !.response = With(body, "http",
                                          [status |-> 200, n |-> Len(remote.sent)]),
                        !.received = Append(@, With(body, "http",
                                                    [status |-> 200, n |-> Len(remote.sent)])),
                        !.log = Append(@, "response"),
                        !.pc = "received"]
    /\ UNCHANGED others

\* The response of the hash-only attempt asks for the query.
MustRetry ==
    /\ remote.cfg.apq
    /\ remote.attempt = 1
    /\ PersistedQueryNotFound(remote.response)

\* Lines 163-199: the request is built again with the query.
Retry ==
    /\ remote.pc = "received"
    /\ MustRetry
    /\ LET second == RequestWithQuery(remote.cfg, remote.request)
       IN  remote' =
              IF second.parseError
              THEN [remote EXCEPT !.ret = ThrownBy("parseError"), !.pc = "done"]
              ELSE [remote EXCEPT !.out = second.request, !.attempt = 2, !.pc = "send"]
    /\ UNCHANGED others

\* Lines 155-161, 200 and 209: respond and return.
Return ==
    /\ remote.pc = "received"
    /\ ~MustRetry
    /\ remote' =
          [remote EXCEPT
              !.ret = Returned(Respond(remote.cfg, remote.response)),
              !.log = IF remote.cfg.didReceiveResponse
                      THEN Append(@, "didReceiveResponse") ELSE @,
              !.pc = "done"]
    /\ UNCHANGED others

NextRemote ==
    \/ Begin
    \/ ThrowMissingQuery
    \/ Prepare
    \/ SendRequest
    \/ FetchFails
    \/ FetchSucceeds
    \/ Retry
    \/ Return

SpecRemote == InitRemote /\ [][NextRemote]_vars

\* ---------------------------------------------------------------------
\* Claims about RemoteGraphQLDataSource.process
\* ---------------------------------------------------------------------

\* What a sent request carries to the subgraph: its body, or the parameters
\* of its URL when it has no body.
Carried(call) == IF call.hasBody THEN call.body ELSE call.url.params

\* The request carries the persistedQuery extension of the query.
CarriesHash(call, query) ==
    /\ "extensions" \in DOMAIN Carried(call)
    /\ "persistedQuery" \in DOMAIN Carried(call).extensions
    /\ Carried(call).extensions.persistedQuery =
          [version |-> 1, sha256Hash |-> Sha256(query)]

\* The number of times the event is in the log.
Count(log, event) == Cardinality({i \in DOMAIN log : log[i] = event})

\* The first place of the event in the log (0 when it is not there).
FirstAt(log, event) ==
    IF \E i \in DOMAIN log : log[i] = event
    THEN CHOOSE i \in DOMAIN log :
            log[i] = event /\ \A j \in DOMAIN log : log[j] = event => i <= j
    ELSE 0

\* C13: with apq and without useGETForHashedQueries every request that
\* process sends is a POST to this.url whose body carries the persistedQuery
\* hash; a GET is sent only when useGETForHashedQueries is true.
C13_ApqPostUnlessGet ==
    \A i \in DOMAIN remote.sent :
       /\ remote.sent[i].method = "GET" => remote.cfg.useGETForHashedQueries
       /\ (remote.cfg.apq /\ ~remote.cfg.useGETForHashedQueries) =>
             /\ remote.sent[i].method = "POST"
             /\ remote.sent[i].url = remote.cfg.url
             /\ remote.sent[i].hasBody
             /\ CarriesHash(remote.sent[i], remote.request.query)

\* C12: with apq process sends at most two requests; the first has no query
\* and carries extensions.persistedQuery {version 1, sha256Hash}; the second
\* is sent iff the first response has an error PersistedQueryNotFound, after
\* that response, and carries the query; process returns the last response
\* received (as didReceiveResponse gives it back when that hook is defined).
C12_ApqHandshake ==
    remote.cfg.apq =>
       /\ Len(remote.sent) <= 2
       /\ Len(remote.sent) >= 1 =>
             /\ "query" \notin DOMAIN Carried(remote.sent[1])
             /\ CarriesHash(remote.sent[1], remote.request.query)
       /\ Len(remote.sent) = 2 =>
             /\ Len(remote.received) >= 1
             /\ PersistedQueryNotFound(remote.received[1])
             /\ remote.log[1 + Count(remote.log, "willSendRequest")] = "fetch"
             /\ remote.log[2 + Count(remote.log, "willSendRequest")] = "response"
             /\ remote.log[3 + Count(remote.log, "willSendRequest")] = "fetch"
             /\ "query" \in DOMAIN Carried(remote.sent[2])
             /\ Carried(remote.sent[2]).query = remote.request.query
       /\ remote.ret.kind = "returned" =>
             /\ PersistedQueryNotFound(remote.received[1]) => Len(remote.sent) = 2
             /\ Len(remote.received) = Len(remote.sent)
             /\ remote.ret.value =
                   Respond(remote.cfg, remote.received[Len(remote.received)])

\* Every request sent without apq: a POST to this.url with Content-Type
\* application/json whose body has the query and no http.
PlainPosts ==
    \A i \in DOMAIN remote.sent :
       /\ remote.sent[i].method = "POST"
       /\ remote.sent[i].url = remote.cfg.url
       /\ "Content-Type" \in DOMAIN remote.sent[i].headers
       /\ remote.sent[i].headers["Content-Type"] = "application/json"
       /\ remote.sent[i].hasBody
       /\ "query" \in DOMAIN remote.sent[i].body
       /\ remote.sent[i].body.query = remote.request.query
       /\ "http" \notin DOMAIN remote.sent[i].body

\* willSendRequest, if defined, has run exactly once, before any request.
WillSendRequestOnceFirst ==
    IF remote.cfg.willSendRequest = "undefined"
    THEN Count(remote.log, "willSendRequest") = 0
    ELSE /\ Count(remote.log, "willSendRequest") = 1
         /\ remote.log[1] = "willSendRequest"

\* didReceiveResponse, if defined, has run exactly once, after the request,
\* and process returns what it gave back.
DidReceiveResponseOnceLast ==
    /\ remote.ret.kind = "returned"
    /\ remote.ret.value = Respond(remote.cfg, remote.response)
    /\ IF remote.cfg.didReceiveResponse
       THEN /\ Count(remote.log, "didReceiveResponse") = 1
            /\ remote.log[Len(remote.log)] = "didReceiveResponse"
            /\ FirstAt(remote.log, "fetch") < Len(remote.log)
       ELSE Count(remote.log, "didReceiveResponse") = 0

C17_MissingQuery ==
    /\ remote.ret = ThrownBy("Missing query") =>
          /\ remote.sent = <<>>
          /\ Count(remote.log, "fetch") = 0
          /\ Count(remote.log, "didReceiveResponse") = 0
          /\ Count(remote.log, "didEncounterError") = 0
          /\ remote.cfg.willSendRequest # "setQuery"
    /\ remote.pc \notin {"start", "check"} =>
          /\ remote.cfg.willSendRequest = "deleteQuery" =>
                remote.ret = ThrownBy("Missing query")
          /\ remote.cfg.willSendRequest = "setQuery" =>
                /\ remote.ret # ThrownBy("Missing query")
                /\ remote.request.query = "{ topProducts }"
          /\ ("query" \notin DOMAIN remote.request) =>
                remote.ret = ThrownBy("Missing query")
          /\ ("query" \in DOMAIN remote.request) =>
                (remote.request.query = "" <=> remote.ret = ThrownBy("Missing query"))

\* A call whose willSendRequest deleted the query has thrown Missing query.
C17_Witness ==
    /\ remote.pc = "done"
    /\ remote.cfg.willSendRequest = "deleteQuery"
    /\ remote.ret = ThrownBy("Missing query")
    /\ remote.sent = <<>>
    /\ remote.log = <<"willSendRequest">>

====
